---- MODULE Spec2Model ----
(***************************************************************************)
(* VisionTale video assembly: VideoService (server/services/               *)
(* video_service.py) as it is driven by the process-wide singleton of      *)
(* server/controllers/video_controller.py.                                 *)
(*                                                                         *)
(* Granularity.  generate_video and _process_segment are coroutines on one *)
(* event loop: the code between two awaits is one atomic step.  The        *)
(* functions handed to run_in_executor (_load_resources, _apply_effects,   *)
(* _write_temp_video, _merge_videos, _cleanup_temp_files) run in worker    *)
(* threads; the ones that touch the chapter directory are steps of their   *)
(* own, and _merge_videos is split at its file-system operations.          *)
(*                                                                         *)
(* All jobs work on one chapter directory and run in one process, so the   *)
(* paths vid_<subdir>_<pid>.mp4, concat.txt, video.tmp_<pid>.mp4 and       *)
(* video.mp4 are the same files for every job.                             *)
(*                                                                         *)
(* The functions without state of their own (ImageEffects.pan_effect and   *)
(* fade_effect of server/utils/image_effect.py, _load_resources, the       *)
(* retry loop of _cleanup_temp_files, the except clause of _merge_videos)  *)
(* are operators; SpecFx calls each of them once on every argument of a    *)
(* bounded set and keeps call and result in fx.                            *)
(***************************************************************************)
EXTENDS Integers, Sequences, FiniteSets, TLC

\* ------------------------------------------------------------------ bounds
NumJobs == 2
MaxSegs == 3
MaxBatch == 2
\* segments submitted over all the calls together: a call is explored only while
\* (segments of the chapter) * (calls made so far, this one included) <= MaxLoad,
\* i.e. one call on a chapter of up to MaxLoad segments, or NumJobs calls
\* (concurrent or one after the other) on a chapter of one segment
MaxLoad == 3

Jobs == 1..NumJobs
\* entries of the chapter directory; a name is its sequence of characters
DirNames == { <<"1">>, <<"0", "1">>, <<"2">>, <<"x">> }
\* audio durations in milliseconds, and the fps settings a caller passes
Durations == {40, 60, 100, 200}
FpsChoices == {10}
BatchSizes == 1..MaxBatch

\* ------------------------------------------------------- program constants
MinFileSize == 1024
MinDurationMs == 50
Missing == 0 - 1
NoDuration == 0 - 1

Sizes == {Missing, MinFileSize - 1, MinFileSize}
Assets == [img : Sizes, aud : Sizes, dur : Durations \cup {NoDuration}]

\* ------------------------------------------------------------ pure helpers
Max(a, b) == IF a >= b THEN a ELSE b
Min(a, b) == IF a <= b THEN a ELSE b

DigitVal(c) == CASE c = "0" -> 0 [] c = "1" -> 1 [] c = "2" -> 2 [] OTHER -> 0 - 1

\* str.isdigit(): non-empty and every character a digit
IsDigit(d) == Len(d) > 0 /\ \A p \in 1..Len(d) : DigitVal(d[p]) >= 0

\* int(x) of a decimal string
RECURSIVE IntOf(_)
IntOf(d) == IF Len(d) = 0 THEN 0
            ELSE 10 * IntOf(SubSeq(d, 1, Len(d) - 1)) + DigitVal(d[Len(d)])

\* one step of a stable sort: x goes after every element whose key is <= its key
InsertStable(t, x) ==
    LET k == Cardinality({p \in 1..Len(t) : IntOf(t[p]) <= IntOf(x)})
    IN  SubSeq(t, 1, k) \o <<x>> \o SubSeq(t, k + 1, Len(t))

\* sorted(lst, key=lambda x: int(x)); Python's sort is stable
RECURSIVE SortedByInt(_)
SortedByInt(s) == IF s = <<>> THEN <<>>
                  ELSE InsertStable(SortedByInt(SubSeq(s, 1, Len(s) - 1)), s[Len(s)])

\* the orders os.listdir may return the entries of a directory in
RECURSIVE ListDir(_)
ListDir(S) == IF S = {} THEN {<<>>}
              ELSE UNION {{<<x>> \o rest : rest \in ListDir(S \ {x})} : x \in S}

\* every entry of the listing taken as a segment
Subdirs_NoFilter(lst) == SortedByInt(lst)

\* subdirs of generate_video for one listing order
Subdirs(lst) == SortedByInt(SelectSeq(lst, IsDigit))

\* the files are only looked for, their sizes are not compared
LoadResources_NoMinimum(a) ==
    IF a.img = Missing \/ a.aud = Missing THEN [err |-> "FileNotFoundError", dur |-> 0]
    ELSE IF a.dur = NoDuration \/ a.dur < MinDurationMs THEN [err |-> "ValueError", dur |-> 0]
    ELSE [err |-> "none", dur |-> a.dur]

\* _load_resources: image first, then audio; existence before size; then duration
LoadResources(a) ==
    IF a.img = Missing THEN [err |-> "FileNotFoundError", dur |-> 0]
    ELSE IF a.img < MinFileSize THEN [err |-> "ValueError", dur |-> 0]
    ELSE IF a.aud = Missing THEN [err |-> "FileNotFoundError", dur |-> 0]
    ELSE IF a.aud < MinFileSize THEN [err |-> "ValueError", dur |-> 0]
    ELSE IF a.dur = NoDuration \/ a.dur < MinDurationMs THEN [err |-> "ValueError", dur |-> 0]
    ELSE [err |-> "none", dur |-> a.dur]

\* total_frames = int(duration * settings['fps']), duration in milliseconds here
TotalFrames(dur, fps) == (dur * fps) \div 1000

\* ---------------------------------------------- utils/image_effect.py
\* Sizes are in pixels, times in milliseconds.  A brightness is the fraction
\* num / den.
\*
\* The code divides in IEEE-754 double arithmetic and truncates with int().
\* For operands up to 14, int(a * (w / h)) is floor(a*w / h) throughout, and
\* int(a / (w / h)) is floor(a*h / w) except for the triples <<a, w, h>> of
\* FloatDivShort, where the double quotient falls just below the integer a*h/w
\* (9 / (9 / 7) = 6.999999999999999).  The comparison of the two aspect ratios
\* agrees with the exact one for these operands.
FloatDivShort == { <<9, 9, 7>>, <<9, 9, 14>> }

\* int(a * img_aspect), img_aspect = img_w / img_h
IntMulAspect(a, w, h) == (a * w) \div h

\* int(a / img_aspect)
IntDivAspect(a, w, h) ==
    IF <<a, w, h>> \in FloatDivShort THEN (a * h) \div w - 1 ELSE (a * h) \div w

\* Image.crop(box): the result has the size of the box, whatever the image holds
Crop(box) == [w |-> box[3] - box[1], h |-> box[4] - box[2]]

\* pan_effect with h_range <= 0 and v_range <= 0: resize, then crop the middle
PanStatic(w, h, ow, oh) ==
    IF w * oh > ow * h
    THEN LET new_height == oh
             new_width == IntMulAspect(new_height, w, h)
             left == (new_width - ow) \div 2
             box == <<left, 0, left + ow, oh>>
         IN  [scaled |-> [w |-> new_width, h |-> new_height], box |-> box, size |-> Crop(box)]
    ELSE LET new_width == ow
             new_height == IntDivAspect(new_width, w, h)
             top == (new_height - oh) \div 2
             box == <<0, top, ow, top + oh>>
         IN  [scaled |-> [w |-> new_width, h |-> new_height], box |-> box, size |-> Crop(box)]

\* the ramp out is looked at first
fade_effect_OutFirst(time_val, duration, fade_duration) ==
    IF fade_duration <= 0 THEN [enhanced |-> FALSE, num |-> 1, den |-> 1]
    ELSE LET brightness == IF duration - time_val < fade_duration
                           THEN <<duration - time_val, fade_duration>>
                           ELSE IF time_val < fade_duration
                           THEN <<time_val, fade_duration>>
                           ELSE <<1, 1>>
         IN  [enhanced |-> brightness[1] < brightness[2],
              num |-> brightness[1], den |-> brightness[2]]

\* fade_effect: the brightness the frame is multiplied by; enhanced tells whether
\* ImageEnhance.Brightness was applied (brightness < 1.0) or the image was
\* returned as it came
fade_effect(time_val, duration, fade_duration) ==
    IF fade_duration <= 0 THEN [enhanced |-> FALSE, num |-> 1, den |-> 1]
    ELSE LET brightness == IF time_val < fade_duration
                           THEN <<time_val, fade_duration>>
                           ELSE IF duration - time_val < fade_duration
                           THEN <<duration - time_val, fade_duration>>
                           ELSE <<1, 1>>
         IN  [enhanced |-> brightness[1] < brightness[2],
              num |-> brightness[1], den |-> brightness[2]]

\* time_val = i / settings['fps'] of _process_segment
FrameTime(i, fps) == (i * 1000) \div fps

\* The pan ranges are in hundredths (pan_range (0.5, 0) is <<50, 0>>).
\*
\* with both ranges positive the pan always runs along the width
use_horizontal_NoAlternation(h_range, v_range, segment_index) ==
    IF h_range > 0 /\ v_range > 0 THEN TRUE
    ELSE IF v_range > 0 THEN FALSE
    ELSE TRUE

\* pan_effect: the direction of the pan
use_horizontal(h_range, v_range, segment_index) ==
    IF h_range > 0 /\ v_range > 0 THEN segment_index % 2 = 0
    ELSE IF v_range > 0 THEN FALSE
    ELSE TRUE

\* int(a * scale_ratio) for scale_ratio = (o * (1 + pct/100)) / d in double
\* arithmetic: floor(a * o * (100 + pct) / (100 * d)), except for the operands of
\* FloatScaleShort, where the double product falls just below the integer
\* (11 * (15 / 11) = 14.999999999999998).  Holds for the sizes of ImageSizes and
\* OutputSizes and the ranges of PanRanges.
FloatScaleShort == { <<11, 15, 0, 11>> }

ScaleDim(a, o, pct, d) ==
    IF <<a, o, pct, d>> \in FloatScaleShort
    THEN (a * o * (100 + pct)) \div (100 * d) - 1
    ELSE (a * o * (100 + pct)) \div (100 * d)

\* _ease_in_out_progress(time_val / duration) = 0.5 * (1 - cos(pi * time_val /
\* duration)) in millionths, rounded down, for the quarters of the duration; the
\* double value at the half is 0.49999999999999994
EaseInOutProgress(time_val, duration) ==
    CASE time_val = 0 -> 0
      [] 4 * time_val = duration -> 146446
      [] 2 * time_val = duration -> 499999
      [] 4 * time_val = 3 * duration -> 853553

\* int(max_offset * progress): int() cuts towards zero
OffsetAt(max_offset, micro) ==
    IF max_offset >= 0 THEN (max_offset * micro) \div 1000000
    ELSE 0 - (((0 - max_offset) * micro) \div 1000000)

\* pan_effect with a positive range: scale so that the pan axis has room for the
\* excursion, then crop at the offset the progress gives; max() returns its
\* first argument when the two ratios are equal
PanMoving(c) ==
    LET horizontal == use_horizontal(c.h_range, c.v_range, c.segment_index)
        byWidth == IF horizontal
                   THEN c.ow * (100 + c.h_range) * c.h >= c.oh * 100 * c.w
                   ELSE c.ow * 100 * c.h >= c.oh * (100 + c.v_range) * c.w
        o == IF byWidth THEN c.ow ELSE c.oh
        pct == IF byWidth THEN (IF horizontal THEN c.h_range ELSE 0)
               ELSE (IF horizontal THEN 0 ELSE c.v_range)
        d == IF byWidth THEN c.w ELSE c.h
        new_width == ScaleDim(c.w, o, pct, d)
        new_height == ScaleDim(c.h, o, pct, d)
        progress == EaseInOutProgress(c.time_val, c.duration)
        x_offset == IF horizontal THEN OffsetAt(new_width - c.ow, progress)
                    ELSE (new_width - c.ow) \div 2
        y_offset == IF horizontal THEN (new_height - c.oh) \div 2
                    ELSE OffsetAt(new_height - c.oh, progress)
        box == <<x_offset, y_offset, x_offset + c.ow, y_offset + c.oh>>
    IN  [scaled |-> [w |-> new_width, h |-> new_height], box |-> box, size |-> Crop(box)]

\* pan_effect(image, time_val, duration, params): the size the image is scaled
\* to, the crop box and the size of the image returned
pan_effect(c) ==
    LET r == IF c.h_range <= 0 /\ c.v_range <= 0
             THEN PanStatic(c.w, c.h, c.ow, c.oh)
             ELSE PanMoving(c)
    IN  [use_horizontal |-> use_horizontal(c.h_range, c.v_range, c.segment_index),
         moving |-> ~(c.h_range <= 0 /\ c.v_range <= 0),
         scaled |-> r.scaled, box |-> r.box, size |-> r.size]

\* _check_hardware: `ffmpeg -encoders` lists h264_nvenc; a run that raises
\* counts as unavailable.  result.stdout is the set of encoders listed
check_hardware(result) ==
    IF result.raises THEN FALSE ELSE "h264_nvenc" \in result.stdout

\* _write_temp_video: the encoding arguments handed to write_videofile
\* (audio_codec, temp_audiofile, threads and logger do not choose the codec)
write_videofile_args(use_cuda, cuda_available) ==
    [codec |-> "h264_nvenc",
     ffmpeg_params |->
        IF use_cuda /\ cuda_available
        THEN <<"-c:v", "h264_nvenc", "-preset", "medium">>
        ELSE <<"-c:v", "libx264", "-preset", "medium", "-crf", "23">>]

\* apply_effects: pan_effect if params['use_pan'], then fade_effect, which leaves
\* the size as it is; without the pan the frame is the copy of the image
apply_effects(c) ==
    [size |-> IF c.use_pan THEN pan_effect(c).size ELSE [w |-> c.w, h |-> c.h],
     brightness |-> fade_effect(c.time_val, c.duration, c.fade_duration)]

\* --------------------------------------------------- _cleanup_temp_files
CleanupAttempts == 3
RemoveOutcomes == {"ok", "PermissionError", "OSError"}

\* any error of os.remove is followed by another attempt
RECURSIVE TryRemove_RetryAll(_, _)
TryRemove_RetryAll(out, i) ==
    IF out[i + 1] = "ok"
    THEN [attempts |-> i + 1, removed |-> TRUE, raised |-> FALSE]
    ELSE IF i < CleanupAttempts - 1 THEN TryRemove_RetryAll(out, i + 1)
    ELSE [attempts |-> i + 1, removed |-> FALSE, raised |-> FALSE]

\* an error that is no PermissionError leaves the function
RECURSIVE TryRemove_Propagates(_, _)
TryRemove_Propagates(out, i) ==
    IF out[i + 1] = "ok"
    THEN [attempts |-> i + 1, removed |-> TRUE, raised |-> FALSE]
    ELSE IF out[i + 1] = "PermissionError"
    THEN IF i < CleanupAttempts - 1 THEN TryRemove_Propagates(out, i + 1)
         ELSE [attempts |-> i + 1, removed |-> FALSE, raised |-> FALSE]
    ELSE [attempts |-> i + 1, removed |-> FALSE, raised |-> TRUE]

\* for i in range(attempts), from iteration i on: out[i + 1] is what the
\* (i+1)-th os.remove(f_path) does
RECURSIVE TryRemove(_, _)
TryRemove(out, i) ==
    IF out[i + 1] = "ok"
    THEN [attempts |-> i + 1, removed |-> TRUE, raised |-> FALSE]
    ELSE IF out[i + 1] = "PermissionError"
    THEN IF i < CleanupAttempts - 1 THEN TryRemove(out, i + 1)
         ELSE [attempts |-> i + 1, removed |-> FALSE, raised |-> FALSE]
    ELSE [attempts |-> i + 1, removed |-> FALSE, raised |-> FALSE]

\* _cleanup_temp_files(files) from the k-th file on: what happened to each file
\* it came to; a file that is not there is passed over
RECURSIVE cleanup_temp_files(_, _)
cleanup_temp_files(fs, k) ==
    IF k > Len(fs) THEN <<>>
    ELSE LET r == IF fs[k].exists THEN TryRemove(fs[k].out, 0)
                  ELSE [attempts |-> 0, removed |-> FALSE, raised |-> FALSE]
         IN  IF r.raised THEN <<r>> ELSE <<r>> \o cleanup_temp_files(fs, k + 1)

\* the finally of generate_video: the cleanup runs when all_temp_files is not
\* empty; an error leaving it would replace the value or error on its way out
FinallyOutcome(result, fs) ==
    LET done == IF fs = <<>> THEN <<>> ELSE cleanup_temp_files(fs, 1) IN
    [files |-> done,
     result |-> IF \E k \in 1..Len(done) : done[k].raised THEN "cleanup error" ELSE result]

\* ------------------------------------------- _merge_videos: ffmpeg's failure
\* bytes.decode(locale.getpreferredencoding(), errors='replace') with UTF-8 the
\* preferred encoding: an ASCII byte is its character, a byte that starts no
\* valid sequence becomes U+FFFD
DecodeByte(b) == CASE b = 69 -> "E" [] b = 10 -> "LF" [] OTHER -> "U+FFFD"
Decode(bytes) == [p \in 1..Len(bytes) |-> DecodeByte(bytes[p])]

\* str(e) of subprocess.CalledProcessError
CalledProcessErrorText == <<"Command '", "cmd", "' returned non-zero exit status ", "returncode", ".">>

\* the except clause of _merge_videos and the except of generate_video above it:
\* the decoded text goes to the log, and the bare raise hands on the exception
\* subprocess.run raised, whose stderr attribute holds the bytes captured
MergeExcept(stderr) ==
    LET e == [kind |-> "CalledProcessError", stderr |-> stderr, text |-> CalledProcessErrorText]
        error_msg == Decode(stderr)
    IN  [logged |-> error_msg, raised |-> e, job |-> e]

\* ------------------------------------------------------------------- state
VARIABLES
    stop_flag,        \* self.stop_flag (threading.Event)
    progress,         \* self.progress
    total_segments,   \* self.total_segments
    current_task,     \* self.current_task
    chapter,          \* names of the entries of the chapter directory
    job,              \* per generate_video call: its locals and position
    clip,             \* vid_<subdir>_<pid>.mp4, per subdir name
    audioTmp,         \* temp_audio_<subdir>_<pid>_<ns>.m4a files on disk
    concat,           \* chapter_dir/concat.txt
    tmpOut,           \* chapter_dir/video.tmp_<pid>.mp4
    video,            \* chapter_dir/video.mp4
    ffOut,            \* where the file a running concat ffmpeg writes now lives
    cancelAt,         \* history, per call: the phase a cancellation reached it in
    fx                \* a call of one of the pure functions: its arguments and what it returned

vars == <<stop_flag, progress, total_segments, current_task, chapter, job, clip,
          audioTmp, concat, tmpOut, video, ffOut, cancelAt, fx>>

svc == <<stop_flag, progress, total_segments, current_task>>
files == <<clip, audioTmp, concat, tmpOut, video, ffOut>>

NumericNames == {d \in DirNames : IsDigit(d)}

NoCall == [pc |-> "none", fn |-> "none", in |-> <<>>, out |-> <<>>]
NoFile == [st |-> "absent", data |-> <<>>]
PreFile == [st |-> "pre", data |-> <<>>]
NoClip == [st |-> "absent", by |-> 0, n |-> 0, total |-> 0]
NewTask == [pc |-> "new", total |-> 0, n |-> 0, err |-> "none"]

IdleJob == [pc |-> "idle", batch_size |-> 1, fps |-> 20, subdirs |-> <<>>, i |-> 0,
            tasks |-> <<>>, temp_video_files |-> <<>>, result |-> "none",
            err |-> "none", ffIn |-> <<>>,
            entryFlag |-> FALSE, video0 |-> NoFile]

\* the chapter directories explored: "x" stands for the entries that are no
\* segment; a chapter with segments has segment "1" (the others differ from
\* these by a renaming of the segments that keeps their order)
Chapters == {S \in SUBSET DirNames :
               /\ <<"x">> \in S
               /\ S \cap NumericNames # {} => <<"1">> \in S
               /\ Cardinality(S \cap NumericNames) <= MaxSegs}

Init ==
    /\ stop_flag = FALSE
    /\ progress = 0
    /\ total_segments = 0
    /\ current_task = "None"
    /\ chapter \in Chapters
    /\ job = [j \in Jobs |-> IdleJob]
    /\ clip = [d \in NumericNames |-> NoClip]
    /\ audioTmp = {}
    /\ concat = NoFile
    /\ tmpOut = NoFile
    /\ video = PreFile
    /\ ffOut = [j \in Jobs |-> "none"]
    /\ cancelAt = [j \in Jobs |-> "none"]
    /\ fx = NoCall


\* ----------------------------------------------------------------- helpers
\* every remaining segment at once
Batch_Unbounded(jr) == (jr.i + 1)..Len(jr.subdirs)

\* a window that starts on the last segment of the window before it
Batch_Overlapping(jr) == Max(1, jr.i)..Min(jr.i + jr.batch_size, Len(jr.subdirs))

\* positions (1-based) of subdirs[i:i+batch_size]
Batch(jr) == (jr.i + 1)..Min(jr.i + jr.batch_size, Len(jr.subdirs))

TaskOver(t) == t.pc \in {"done", "failed"}

\* tasks = [self._process_segment(subdir, ...) for subdir in batch]: each task
\* runs to its first await, the executor call of _load_resources
StartBatch(jr) ==
    [jr EXCEPT !.tasks = [k \in 1..Len(jr.subdirs) |->
                            IF k \in Batch(jr) THEN [NewTask EXCEPT !.pc = "load"]
                            ELSE jr.tasks[k]]]

\* the error (or value) leaves generate_video without the finally having run
Finish_SkipsCleanup(jr, res) == [jr EXCEPT !.result = res, !.pc = "done"]

\* the except/finally of generate_video: the error (or value) is kept, and
\* _cleanup_temp_files is submitted only if all_temp_files is non-empty
Finish(jr, res) ==
    [jr EXCEPT !.result = res,
               !.pc = IF jr.temp_video_files = <<>> THEN "done" ELSE "cleanup"]

\* the error is swallowed and the task returns as if it had rendered its segment
Failed_Skipped(t, e) == [NewTask EXCEPT !.pc = "done", !.err = e]

\* a task that raised: its frames are dropped in the finally of _process_segment
Failed(t, e) == [NewTask EXCEPT !.pc = "failed", !.err = e]

\* for result in batch_results: the clips of the batch, in task order
RECURSIVE Collected(_, _, _)
Collected(jr, k, last) ==
    IF k > last THEN <<>>
    ELSE (IF jr.tasks[k].pc = "done" THEN <<jr.subdirs[k]>> ELSE <<>>)
         \o Collected(jr, k + 1, last)

\* ----------------------------------------------------------------- actions
\* generate_video from its entry to the first await (asyncio.gather)
Enter(j) ==
    /\ job[j].pc = "idle"
    /\ Cardinality(chapter \cap NumericNames) * (Cardinality({w \in Jobs : job[w].pc # "idle"}) + 1) <= MaxLoad
    /\ \E bs \in BatchSizes, fps \in FpsChoices, lst \in ListDir(chapter) :
         LET subdirs == Subdirs(lst) IN
         /\ IF subdirs = <<>>
            THEN /\ job' = [job EXCEPT ![j] = Finish([@ EXCEPT !.entryFlag = stop_flag, !.video0 = video], "no_segments")]
                 /\ UNCHANGED <<progress, total_segments, current_task>>
            ELSE /\ job' = [job EXCEPT ![j] =
                           StartBatch([@ EXCEPT !.pc = "batch", !.batch_size = bs,
                                                !.fps = fps, !.subdirs = subdirs, !.i = 0,
                                                !.entryFlag = stop_flag, !.video0 = video,
                                                !.tasks = [k \in 1..Len(subdirs) |-> NewTask]])]
                 /\ progress' = 0
                 /\ total_segments' = Len(subdirs)
                 /\ current_task' = "chapter"
    /\ stop_flag' = FALSE
    /\ UNCHANGED <<chapter, fx, files, cancelAt>>

\* _process_segment after _load_resources returned or raised, up to the next await
SegmentLoaded(j, k) ==
    /\ job[j].pc = "batch"
    /\ job[j].tasks[k].pc = "load"
    /\ \E a \in Assets :
         LET r == LoadResources(a)
             total == TotalFrames(r.dur, job[j].fps)
             t == job[j].tasks[k]
         IN  job' = [job EXCEPT ![j].tasks[k] =
                 IF r.err # "none" THEN Failed(t, "asset")
                 ELSE IF total = 0 THEN Failed(t, "zero_frames")
                 ELSE IF stop_flag THEN [t EXCEPT !.pc = "write", !.total = total]
                 ELSE [t EXCEPT !.pc = "frame", !.total = total]]
    /\ UNCHANGED <<svc, chapter, fx, files, cancelAt>>

\* one turn of the frame loop: _apply_effects returned or raised, the frame is
\* appended, and the loop either ends, breaks on stop_flag or submits the next frame
FrameRendered(j, k) ==
    /\ job[j].pc = "batch"
    /\ job[j].tasks[k].pc = "frame"
    /\ \E ok \in BOOLEAN :
         LET t == job[j].tasks[k] IN
         job' = [job EXCEPT ![j].tasks[k] =
                 IF ~ok THEN Failed(t, "effect")
                 ELSE IF t.n + 1 = t.total \/ stop_flag
                      THEN [t EXCEPT !.pc = "write", !.n = t.n + 1]
                      ELSE [t EXCEPT !.n = t.n + 1]]
    /\ UNCHANGED <<svc, chapter, fx, files, cancelAt>>

\* _write_temp_video in its worker thread.  ImageSequenceClip raises on an empty
\* frame list before any file is created; a failing encode may leave what it
\* had written; a successful one removes its temp audio file itself
WriteTempVideo(j, k) ==
    /\ job[j].pc = "batch"
    /\ job[j].tasks[k].pc = "write"
    /\ LET t == job[j].tasks[k]
           d == job[j].subdirs[k]
       IN  \/ /\ t.n > 0
              /\ clip' = [clip EXCEPT ![d] = [st |-> "whole", by |-> j, n |-> t.n, total |-> t.total]]
              /\ job' = [job EXCEPT ![j].tasks[k].pc = "wrote"]
              /\ UNCHANGED audioTmp
           \/ /\ \E left \in {{}, {"video", "audio"}} :
                   /\ t.n = 0 => left = {}
                   /\ clip' = IF "video" \in left
                              THEN [clip EXCEPT ![d] = [st |-> "partial", by |-> j, n |-> 0, total |-> 0]]
                              ELSE clip
                   /\ audioTmp' = IF "audio" \in left THEN audioTmp \cup {<<j, k>>} ELSE audioTmp
              /\ job' = [job EXCEPT ![j].tasks[k] = Failed(t, "encode")]
    /\ UNCHANGED <<svc, chapter, fx, concat, tmpOut, video, ffOut, cancelAt>>

\* _process_segment after the write: os.path.getsize(temp_file) for the log line,
\* then the counter under task_lock, then return (temp_file, temp_audio_path)
SegmentFinished(j, k) ==
    /\ job[j].pc = "batch"
    /\ job[j].tasks[k].pc = "wrote"
    /\ IF clip[job[j].subdirs[k]].st = "absent"
       THEN /\ job' = [job EXCEPT ![j].tasks[k] = Failed(@, "stat")]
            /\ UNCHANGED progress
       ELSE /\ job' = [job EXCEPT ![j].tasks[k].pc = "done"]
            /\ progress' = progress + 1
    /\ UNCHANGED <<stop_flag, total_segments, current_task, chapter, fx, files, cancelAt>>

\* the count check after the loop: len(temp_video_files) != len(subdirs) raises
AllSucceeded_AnyClip(jr) == Len(jr.temp_video_files) > 0

AllSucceeded(jr) == Len(jr.temp_video_files) = Len(jr.subdirs)

\* await asyncio.gather(*tasks, return_exceptions=True) returns once every task
\* of the batch has returned or raised
GatherReturns_FirstException(jr) ==
    \/ \E k \in Batch(jr) : jr.tasks[k].pc = "failed"
    \/ \A k \in Batch(jr) : TaskOver(jr.tasks[k])

GatherReturns(jr) == \A k \in Batch(jr) : TaskOver(jr.tasks[k])

\* the count check is made before the flag is looked at
BatchDone_CountCheckFirst(j) ==
    /\ job[j].pc = "batch"
    /\ GatherReturns(job[j])
    /\ LET jr == [job[j] EXCEPT !.temp_video_files =
                     @ \o Collected(job[j], job[j].i + 1, Min(job[j].i + job[j].batch_size, Len(job[j].subdirs)))]
       IN  IF jr.i + jr.batch_size >= Len(jr.subdirs) /\ ~AllSucceeded(jr)
           THEN job' = [job EXCEPT ![j] = Finish(jr, "partial")] /\ UNCHANGED current_task
           ELSE IF stop_flag
           THEN job' = [job EXCEPT ![j] = Finish(jr, "cancelled")] /\ UNCHANGED current_task
           ELSE IF jr.i + jr.batch_size < Len(jr.subdirs)
           THEN job' = [job EXCEPT ![j] = StartBatch([jr EXCEPT !.i = jr.i + jr.batch_size])]
                /\ UNCHANGED current_task
           ELSE job' = [job EXCEPT ![j] = [jr EXCEPT !.pc = "merge_list"]]
                /\ current_task' = "Merging videos"
    /\ UNCHANGED <<stop_flag, progress, total_segments, chapter, fx, files, cancelAt>>

\* generate_video after asyncio.gather returned: collect, check stop_flag, then
\* the next batch, or the count check and the hand-over to _merge_videos
BatchDone(j) ==
    /\ job[j].pc = "batch"
    /\ GatherReturns(job[j])
    /\ LET jr == [job[j] EXCEPT !.temp_video_files =
                     @ \o Collected(job[j], job[j].i + 1, Min(job[j].i + job[j].batch_size, Len(job[j].subdirs)))]
       IN  IF stop_flag
           THEN job' = [job EXCEPT ![j] = Finish(jr, "cancelled")] /\ UNCHANGED current_task
           ELSE IF jr.i + jr.batch_size < Len(jr.subdirs)
           THEN job' = [job EXCEPT ![j] = StartBatch([jr EXCEPT !.i = jr.i + jr.batch_size])]
                /\ UNCHANGED current_task
           ELSE IF ~AllSucceeded(jr)
           THEN job' = [job EXCEPT ![j] = Finish(jr, "partial")] /\ UNCHANGED current_task
           ELSE job' = [job EXCEPT ![j] = [jr EXCEPT !.pc = "merge_list"]]
                /\ current_task' = "Merging videos"
    /\ UNCHANGED <<stop_flag, progress, total_segments, chapter, fx, files, cancelAt>>

\* cancel_generation
Cancel ==
    /\ stop_flag' = TRUE
    /\ cancelAt' = [j \in Jobs |->
          IF job[j].pc = "batch" /\ \E k \in Batch(job[j]) : ~TaskOver(job[j].tasks[k])
          THEN "rendering"
          ELSE IF job[j].pc \notin {"idle", "done"} /\ cancelAt[j] = "none"
          THEN "other"
          ELSE cancelAt[j]]
    /\ UNCHANGED <<progress, total_segments, current_task, chapter, fx, job, files>>


\* what ffmpeg's concat demuxer reads: the list file as it is now, and the clips
\* it names; <<>> when the list or one of its clips is missing or incomplete
ConcatInput ==
    IF concat.st = "whole" /\ \A p \in 1..Len(concat.data) : clip[concat.data[p]].st = "whole"
    THEN [p \in 1..Len(concat.data) |->
            [seg |-> concat.data[p], n |-> clip[concat.data[p]].n, total |-> clip[concat.data[p]].total]]
    ELSE <<>>

\* the running ffmpeg processes that have the file at location loc open
Writers(loc) == {w \in Jobs : ffOut[w] = loc}

\* _merge_videos, in its worker thread: with open(concat_list, 'w') ... f.write
WriteConcatList(j) ==
    /\ job[j].pc = "merge_list"
    /\ concat' = [st |-> "whole", data |-> job[j].temp_video_files]
    /\ job' = [job EXCEPT ![j].pc = "merge_start"]
    /\ UNCHANGED <<svc, chapter, fx, clip, audioTmp, tmpOut, video, ffOut, cancelAt>>

\* subprocess.run(cmd): ffmpeg opens its input; with a readable input it opens
\* temp_output_path for writing (-y), truncating what is there
FfmpegStart(j) ==
    /\ job[j].pc = "merge_start"
    /\ job' = [job EXCEPT ![j].pc = "merge_run", ![j].ffIn = ConcatInput]
    /\ IF ConcatInput = <<>>
       THEN UNCHANGED <<tmpOut, ffOut>>
       ELSE /\ tmpOut' = [st |-> IF Writers("tmp") # {} THEN "garbage" ELSE "partial",
                          data |-> <<>>]
            /\ ffOut' = [ffOut EXCEPT ![j] = "tmp"]
    /\ UNCHANGED <<svc, chapter, fx, clip, audioTmp, concat, video, cancelAt>>

\* the file a process wrote alone becomes complete when the process exits with 0
Completed(f, data) == IF f.st = "partial" THEN [f EXCEPT !.st = "whole", !.data = data] ELSE f

\* subprocess.run returns (exit status 0) or raises CalledProcessError
FfmpegExit(j) ==
    /\ job[j].pc = "merge_run"
    /\ \E ok \in BOOLEAN :
         /\ ok => job[j].ffIn # <<>>
         /\ job' = [job EXCEPT ![j].pc = IF ok THEN "merge_replace" ELSE "merge_finally",
                               ![j].err = IF ok THEN "none" ELSE "CalledProcessError"]
         /\ tmpOut' = IF ok /\ ffOut[j] = "tmp" /\ Writers("tmp") = {j}
                      THEN Completed(tmpOut, job[j].ffIn) ELSE tmpOut
         /\ video' = IF ok /\ ffOut[j] = "video" /\ Writers("video") = {j}
                     THEN Completed(video, job[j].ffIn) ELSE video
    /\ ffOut' = [ffOut EXCEPT ![j] = "none"]
    /\ UNCHANGED <<svc, chapter, fx, clip, audioTmp, concat, cancelAt>>

\* os.replace(temp_output_path, output_path); FileNotFoundError if the temp
\* output is not there.  A process that has the renamed file open keeps writing it
MergeReplace(j) ==
    /\ job[j].pc = "merge_replace"
    /\ job' = [job EXCEPT ![j].pc = "merge_finally",
                          ![j].err = IF tmpOut.st = "absent" THEN "FileNotFoundError" ELSE "none"]
    /\ IF tmpOut.st = "absent"
       THEN UNCHANGED <<tmpOut, video, ffOut>>
       ELSE /\ video' = tmpOut
            /\ tmpOut' = NoFile
            /\ ffOut' = [w \in Jobs |-> CASE ffOut[w] = "tmp" -> "video"
                                          [] ffOut[w] = "video" -> "unlinked"
                                          [] OTHER -> ffOut[w]]
    /\ UNCHANGED <<svc, chapter, fx, clip, audioTmp, concat, cancelAt>>

\* the finally of _merge_videos, a file-system operation at a time:
\* if os.path.exists(concat_list)
FinallyListExists(j) ==
    /\ job[j].pc = "merge_finally"
    /\ job' = [job EXCEPT ![j].pc = IF concat.st # "absent" THEN "merge_rm_list"
                                    ELSE "merge_finally_out"]
    /\ UNCHANGED <<concat, tmpOut, ffOut>>

\* os.remove(concat_list); FileNotFoundError, which leaves the finally, if
\* the file is gone by now
FinallyListRemove(j) ==
    /\ job[j].pc = "merge_rm_list"
    /\ IF concat.st = "absent"
       THEN job' = [job EXCEPT ![j].pc = "merge_ret", ![j].err = "FileNotFoundError"]
       ELSE job' = [job EXCEPT ![j].pc = "merge_finally_out"]
    /\ concat' = NoFile
    /\ UNCHANGED <<tmpOut, ffOut>>

\* if os.path.exists(temp_output_path)
FinallyOutExists(j) ==
    /\ job[j].pc = "merge_finally_out"
    /\ job' = [job EXCEPT ![j].pc = IF tmpOut.st # "absent" THEN "merge_rm_out"
                                    ELSE "merge_ret"]
    /\ UNCHANGED <<concat, tmpOut, ffOut>>

\* os.remove(temp_output_path); a process that has the file open keeps writing it
FinallyOutRemove(j) ==
    /\ job[j].pc = "merge_rm_out"
    /\ job' = [job EXCEPT ![j].pc = "merge_ret",
                          ![j].err = IF tmpOut.st = "absent" THEN "FileNotFoundError" ELSE @]
    /\ tmpOut' = NoFile
    /\ ffOut' = [w \in Jobs |-> IF ffOut[w] = "tmp" THEN "unlinked" ELSE ffOut[w]]
    /\ UNCHANGED concat

MergeFinally(j) ==
    /\ \/ FinallyListExists(j)
       \/ FinallyListRemove(j)
       \/ FinallyOutExists(j)
       \/ FinallyOutRemove(j)
    /\ UNCHANGED <<svc, chapter, fx, clip, audioTmp, video, cancelAt>>

\* the flag is looked at once more when the merge has returned
MergeReturned_ChecksFlag(j) ==
    /\ job[j].pc = "merge_ret"
    /\ IF stop_flag
       THEN /\ job' = [job EXCEPT ![j] = Finish(@, "cancelled")]
            /\ UNCHANGED <<current_task, progress>>
       ELSE IF job[j].err = "none"
       THEN /\ current_task' = "Completed"
            /\ progress' = total_segments
            /\ job' = [job EXCEPT ![j] = Finish(@, "success")]
       ELSE /\ job' = [job EXCEPT ![j] = Finish(@, job[j].err)]
            /\ UNCHANGED <<current_task, progress>>
    /\ UNCHANGED <<stop_flag, total_segments, chapter, fx, files, cancelAt>>

\* generate_video after the executor call of _merge_videos returned or raised
MergeReturned(j) ==
    /\ job[j].pc = "merge_ret"
    /\ IF job[j].err = "none"
       THEN /\ current_task' = "Completed"
            /\ progress' = total_segments
            /\ job' = [job EXCEPT ![j] = Finish(@, "success")]
       ELSE /\ job' = [job EXCEPT ![j] = Finish(@, job[j].err)]
            /\ UNCHANGED <<current_task, progress>>
    /\ UNCHANGED <<stop_flag, total_segments, chapter, fx, files, cancelAt>>

\* the paths of files that _cleanup_temp_files finds on disk: the clips; the temp
\* audio file of a successful segment was removed by its encode
RECURSIVE Range(_)
Range(s) == IF s = <<>> THEN {} ELSE {s[Len(s)]} \cup Range(SubSeq(s, 1, Len(s) - 1))

\* _cleanup_temp_files(all_temp_files) in its worker thread; kept are the files
\* whose os.remove did not succeed
CleanupTempFiles(j) ==
    /\ job[j].pc = "cleanup"
    /\ \E kept \in SUBSET {d \in Range(job[j].temp_video_files) : clip[d].st # "absent"} :
         clip' = [d \in NumericNames |->
                    IF d \in Range(job[j].temp_video_files) /\ d \notin kept THEN NoClip ELSE clip[d]]
    /\ job' = [job EXCEPT ![j].pc = "done"]
    /\ UNCHANGED <<svc, chapter, fx, audioTmp, concat, tmpOut, video, ffOut, cancelAt>>

\* get_progress: the dictionary it returns in the current state
get_progress ==
    LET total == Max(1, total_segments) IN
    [progress |-> progress, total |-> total,
     percentage |-> (progress * 100) \div total, current_task |-> current_task]

Next ==
    \/ \E j \in Jobs : Enter(j)
    \/ \E j \in Jobs : \E k \in 1..Len(job[j].subdirs) : SegmentLoaded(j, k)
    \/ \E j \in Jobs : \E k \in 1..Len(job[j].subdirs) : FrameRendered(j, k)
    \/ \E j \in Jobs : \E k \in 1..Len(job[j].subdirs) : WriteTempVideo(j, k)
    \/ \E j \in Jobs : \E k \in 1..Len(job[j].subdirs) : SegmentFinished(j, k)
    \/ \E j \in Jobs : BatchDone(j)
    \/ \E j \in Jobs : WriteConcatList(j)
    \/ \E j \in Jobs : FfmpegStart(j)
    \/ \E j \in Jobs : FfmpegExit(j)
    \/ \E j \in Jobs : MergeReplace(j)
    \/ \E j \in Jobs : MergeFinally(j)
    \/ \E j \in Jobs : MergeReturned(j)
    \/ \E j \in Jobs : CleanupTempFiles(j)
    \/ Cancel

Spec == Init /\ [][Next]_vars

\* ------------------------------- one call of generate_video that is let run
\* the steps of call j after its entry: its segment tasks in their worker
\* threads, the continuation of generate_video after each await, the merge and
\* the cleanup
JobStep(j) ==
    \/ \E k \in 1..Len(job[j].subdirs) : SegmentLoaded(j, k)
    \/ \E k \in 1..Len(job[j].subdirs) : FrameRendered(j, k)
    \/ \E k \in 1..Len(job[j].subdirs) : WriteTempVideo(j, k)
    \/ \E k \in 1..Len(job[j].subdirs) : SegmentFinished(j, k)
    \/ BatchDone(j)
    \/ WriteConcatList(j)
    \/ FfmpegStart(j)
    \/ FfmpegExit(j)
    \/ MergeReplace(j)
    \/ MergeFinally(j)
    \/ MergeReturned(j)
    \/ CleanupTempFiles(j)

\* a single request, with cancellation requests at any time
NextReturns ==
    \/ Enter(1)
    \/ JobStep(1)
    \/ Cancel

\* every asset load, frame render and external process returns, and the event
\* loop resumes a coroutine whose await is over: a step of the call that stays
\* possible is taken
SpecReturns == Init /\ [][NextReturns]_vars /\ WF_vars(JobStep(1))

\* ------------------------------------------- the pure functions, one call each
MaxDim == 9
MaxFiles == 2

Dims == 1..MaxDim
FadeDurations == {0 - 50, 0, 50, 100, 150, 200}
FxFps == {10, 20}

MaxOf(S) == CHOOSE x \in S : \A y \in S : y <= x

\* the frames of a segment: for i in range(total_frames)
FrameCalls == {c \in [duration : Durations, fps : FxFps,
                      i : 0..TotalFrames(MaxOf(Durations), MaxOf(FxFps))] :
                  /\ c.duration >= MinDurationMs
                  /\ c.i < TotalFrames(c.duration, c.fps)}

\* their times: (duration, time_val) in milliseconds
FrameTimes == {<<c.duration, FrameTime(c.i, c.fps)>> : c \in FrameCalls}

\* source images, output resolutions and pan ranges of the panned frames
ImageSizes == { <<4, 3>>, <<3, 4>>, <<4, 4>>, <<6, 11>>, <<11, 6>>, <<2, 9>> }
OutputSizes == { <<4, 4>>, <<4, 3>>, <<3, 15>>, <<15, 3>>, <<2, 2>> }
PanRanges == { <<0, 0>>, <<50, 0>>, <<0, 50>>, <<50, 50>>, <<30, 0>>,
               <<50, 0 - 10>>, <<0 - 10, 50>>, <<0 - 10, 0>> }
SegmentIndexes == {IntOf(d) : d \in NumericNames}

PanCall(img, out, rng, idx, ft) ==
    [w |-> img[1], h |-> img[2], ow |-> out[1], oh |-> out[2],
     h_range |-> rng[1], v_range |-> rng[2], segment_index |-> idx,
     duration |-> ft[1], time_val |-> ft[2]]

\* every image size up to MaxDim without a pan, and the frames of the panned segments
PanCalls ==
    {PanCall(<<w, h>>, <<ow, oh>>, <<0, 0>>, 1, <<MaxOf(Durations), 0>>) :
        w \in Dims, h \in Dims, ow \in Dims, oh \in Dims}
    \cup {PanCall(img, out, rng, idx, ft) :
            img \in ImageSizes, out \in OutputSizes, rng \in PanRanges,
            idx \in SegmentIndexes, ft \in FrameTimes}

ApplyCalls ==
    {[c EXCEPT !.fade_duration = fd, !.use_pan = p] :
        c \in {[w |-> q.w, h |-> q.h, ow |-> q.ow, oh |-> q.oh,
                h_range |-> q.h_range, v_range |-> q.v_range,
                segment_index |-> q.segment_index, duration |-> q.duration,
                time_val |-> q.time_val, fade_duration |-> 0, use_pan |-> TRUE] :
               q \in {PanCall(img, out, rng, idx, ft) :
                        img \in ImageSizes, out \in OutputSizes, rng \in PanRanges,
                        idx \in SegmentIndexes, ft \in FrameTimes}},
        fd \in {0, 100}, p \in BOOLEAN}

FadeCalls == {c \in [duration : Durations, fps : FxFps,
                     i : 0..TotalFrames(MaxOf(Durations), MaxOf(FxFps)),
                     fade_duration : FadeDurations] :
                 /\ c.duration >= MinDurationMs
                 /\ c.i < TotalFrames(c.duration, c.fps)}

FileCases == [exists : BOOLEAN, out : [1..CleanupAttempts -> RemoveOutcomes]]
FileLists == UNION {[1..n -> FileCases] : n \in 0..MaxFiles}

\* the ways generate_video comes to its finally: no clip was collected when no
\* segment was found, and a merge ran on at least one clip
CleanupCalls == {c \in [result : {"no_segments", "cancelled", "partial", "success",
                                  "CalledProcessError", "FileNotFoundError"},
                        files : FileLists] :
                   /\ c.result = "no_segments" => c.files = <<>>
                   /\ c.result \in {"success", "CalledProcessError", "FileNotFoundError"}
                        => c.files # <<>>}

\* what ffmpeg wrote to its standard error before it exited with a nonzero status
StderrBytes == {69, 10, 255}
Stderrs == UNION {[1..n -> StderrBytes] : n \in 0..2}

Call(fn, in) == [pc |-> "call", fn |-> fn, in |-> in, out |-> <<>>]

\* what `ffmpeg -encoders` may answer when the service is constructed, and the
\* use_cuda setting the request may carry
EncoderListings == {{}, {"libx264"}, {"h264_nvenc"}, {"libx264", "h264_nvenc"}}
HardwareProbes ==
    {[raises |-> FALSE, stdout |-> e] : e \in EncoderListings}
        \cup {[raises |-> TRUE, stdout |-> {}]}
EncodeCalls == [encoders : HardwareProbes, use_cuda : BOOLEAN]

InitFx ==
    /\ stop_flag = FALSE
    /\ progress = 0
    /\ total_segments = 0
    /\ current_task = "None"
    /\ chapter = {<<"x">>}
    /\ job = [j \in Jobs |-> IdleJob]
    /\ clip = [d \in NumericNames |-> NoClip]
    /\ audioTmp = {}
    /\ concat = NoFile
    /\ tmpOut = NoFile
    /\ video = PreFile
    /\ ffOut = [j \in Jobs |-> "none"]
    /\ cancelAt = [j \in Jobs |-> "none"]
    /\ fx \in {Call("pan_effect", c) : c \in PanCalls}
              \cup {Call("fade_effect", c) : c \in FadeCalls}
              \cup {Call("_load_resources", c) : c \in Assets}
              \cup {Call("_cleanup_temp_files", c) : c \in CleanupCalls}
              \cup {Call("_merge_videos", c) : c \in Stderrs}
              \cup {Call("apply_effects", c) : c \in ApplyCalls}
              \cup {Call("_write_temp_video", c) : c \in EncodeCalls}

Return(out) ==
    /\ fx.pc = "call"
    /\ fx' = [fx EXCEPT !.pc = "return", !.out = out]
    /\ UNCHANGED <<svc, chapter, job, files, cancelAt>>

PanEffect ==
    /\ fx.fn = "pan_effect"
    /\ Return(pan_effect(fx.in))

ApplyEffects ==
    /\ fx.fn = "apply_effects"
    /\ Return(apply_effects(fx.in))

FadeEffect ==
    /\ fx.fn = "fade_effect"
    /\ Return(fade_effect(FrameTime(fx.in.i, fx.in.fps), fx.in.duration, fx.in.fade_duration))

LoadSegment ==
    /\ fx.fn = "_load_resources"
    /\ Return(LoadResources(fx.in))

CleanupFinally ==
    /\ fx.fn = "_cleanup_temp_files"
    /\ Return(FinallyOutcome(fx.in.result, fx.in.files))

MergeFails ==
    /\ fx.fn = "_merge_videos"
    /\ Return(MergeExcept(fx.in))

WriteVideofile ==
    /\ fx.fn = "_write_temp_video"
    /\ Return(write_videofile_args(fx.in.use_cuda, check_hardware(fx.in.encoders)))

NextFx ==
    \/ PanEffect \/ FadeEffect \/ LoadSegment \/ CleanupFinally \/ MergeFails
    \/ ApplyEffects \/ WriteVideofile

SpecFx == InitFx /\ [][NextFx]_vars

Returned(fn) == fx.pc = "return" /\ fx.fn = fn


\* ------------------------------------------------------- claims: vocabulary
MergePcs == {"merge_list", "merge_start", "merge_run", "merge_replace",
             "merge_finally", "merge_rm_list", "merge_finally_out", "merge_rm_out",
             "merge_ret"}

\* generate_video has raised or computed its return value (its finally may still run)
Ended(j) == job[j].pc \in {"cleanup", "done"} /\ job[j].result # "none"

\* generate_video has returned to its caller
Done(j) == job[j].pc = "done"

\* the job handed temp_video_files to _merge_videos
MergerInvoked(j) ==
    \/ job[j].pc \in MergePcs
    \/ job[j].result \in {"success", "CalledProcessError", "FileNotFoundError"}

SomeFailed(j) == \E k \in 1..Len(job[j].subdirs) : job[j].tasks[k].pc = "failed"

\* every batch of the job has been awaited
AllBatchesRan(j) ==
    /\ job[j].subdirs # <<>>
    /\ job[j].i + job[j].batch_size >= Len(job[j].subdirs)
    /\ \A k \in 1..Len(job[j].subdirs) : TaskOver(job[j].tasks[k])

\* C1: for every job that reaches the merge step, the clips handed to the merger
\* are in strictly ascending numeric segment-id order.
C1_MergeOrderStrictlyAscending ==
    \A j \in Jobs : MergerInvoked(j) =>
        \A p \in 1..(Len(job[j].temp_video_files) - 1) :
            IntOf(job[j].temp_video_files[p]) < IntOf(job[j].temp_video_files[p + 1])

\* C2 (as amended): a job one of whose segments failed to render never invokes
\* the merger (so it never writes the concat list, the temp output or video.mp4),
\* and it ends with the partial-failure error or, when the flag was found set at
\* a batch boundary, with the cancellation error.
C2_FailedSegmentNeverMerges ==
    \A j \in Jobs : SomeFailed(j) =>
        /\ ~MergerInvoked(j)
        /\ Ended(j) => job[j].result \in {"partial", "cancelled"}

\* a job with one rendered and one failed segment has ended in partial failure
C2_Witness ==
    \E j \in Jobs :
        /\ Done(j) /\ SomeFailed(j) /\ AllBatchesRan(j)
        /\ job[j].temp_video_files # <<>>
        /\ job[j].result = "partial"

\* C2 (as stated): at the step at which a job with a failed segment ends after all
\* its batches have run, it ends with the partial-failure error, without merger
\* call, and video.mp4 is what it was when the job started.
C2_FailedSegmentEndsPartial ==
    [][\A j \in Jobs :
         (~Ended(j) /\ Ended(j)' /\ SomeFailed(j)' /\ AllBatchesRan(j)') =>
            /\ job'[j].result = "partial"
            /\ ~MergerInvoked(j)'
            /\ video' = job'[j].video0]_vars

\* C3: video.mp4 always holds its pre-job content or a completely written merge
\* result.
C3_VideoNeverPartial == video.st \in {"pre", "whole"}

\* C4: a job on N >= 1 valid segments, without cancellation and without encoder
\* failure, returns success after handing the merger exactly its N clips.
C4_ValidJobSucceeds ==
    \A j \in Jobs :
        ( /\ Done(j) /\ job[j].subdirs # <<>>
          /\ cancelAt[j] = "none" /\ ~job[j].entryFlag
          /\ \A k \in 1..Len(job[j].subdirs) :
                job[j].tasks[k].err \notin {"asset", "zero_frames", "effect", "encode"}
          /\ job[j].result # "CalledProcessError" )
        => /\ job[j].result = "success"
           /\ job[j].temp_video_files = job[j].subdirs

\* temp files of job j on disk
TempFilesOf(j) ==
    {<<"clip", d>> : d \in {e \in NumericNames : clip[e].st # "absent" /\ clip[e].by = j}}
    \cup {<<"audio", a[2]>> : a \in {b \in audioTmp : b[1] = j}}

\* C5: a job entered while a cancellation request is pending ends with the
\* cancellation error and leaves none of its temp files on disk.
C5_CancelBeforeFirstBatch ==
    \A j \in Jobs :
        (Done(j) /\ job[j].subdirs # <<>> /\ job[j].entryFlag) =>
            /\ job[j].result = "cancelled"
            /\ ~MergerInvoked(j)
            /\ TempFilesOf(j) = {}

\* C6: a job that ended in cancellation started no batch after the check and
\* never invoked the merger; and a job that a cancellation reached while one of
\* its batches was rendering ends in cancellation.
C6_CancelDuringBatchEndsJob ==
    \A j \in Jobs :
        /\ (Ended(j) /\ job[j].result = "cancelled") =>
              /\ ~MergerInvoked(j)
              /\ \A k \in 1..Len(job[j].subdirs) :
                    k > job[j].i + job[j].batch_size => job[j].tasks[k].pc = "new"
        /\ (Done(j) /\ cancelAt[j] = "rendering") => job[j].result = "cancelled"

\* C7: no clip holding fewer frames than floor(D*fps) is ever written.
C7_NoTruncatedClip ==
    \A d \in NumericNames : clip[d].st = "whole" => clip[d].n = clip[d].total

\* C8: the completed count never exceeds the total segment count.
C8_CompletedAtMostTotal == progress <= total_segments

\* C9: unless a job initialises its progress in the step, the completed count
\* does not decrease.
C9_ProgressMonotonic ==
    [][(\A j \in Jobs : ~(job[j].pc = "idle" /\ job'[j].pc = "batch")) =>
          progress' >= progress]_vars

\* C10: a progress query returns the stored values, a percentage equal to the
\* integer part of completed*100/total, and a percentage between 0 and 100.
C10_ProgressSnapshot ==
    LET r == get_progress IN
    /\ r.progress = progress
    /\ r.current_task = current_task
    /\ r.percentage = (r.progress * 100) \div r.total
    /\ r.percentage >= 0 /\ r.percentage <= 100

\* generate_video of call j is between its entry and the end of its finally
Running(j) == job[j].pc \notin {"idle", "done"}

\* C11: once cancel_generation has set the flag, no step resets it while a job
\* that the cancellation reached is still running.
C11_FlagMonotonic ==
    [][(stop_flag /\ \E j \in Jobs : Running(j) /\ cancelAt[j] # "none") => stop_flag']_vars

\* C12: at the step at which a job returns to its caller, with every deletion of
\* its cleanup having succeeded, no temp clip and no temp audio file written by
\* one of its segments is on disk.
C12_NoTempFilesAtEnd ==
    [][\A j \in Jobs :
         ( /\ ~Done(j) /\ Done(j)'
           /\ \A d \in Range(job[j].temp_video_files) : clip'[d].st = "absent" )
         => TempFilesOf(j)' = {}]_vars

\* task k of job j is being rendered
InFlight(j, k) == job[j].tasks[k].pc \in {"load", "frame", "write", "wrote"}

\* the step is the one that follows the return of job j's gather
AfterGather(j) ==
    /\ job[j].pc = "batch"
    /\ job'[j].pc # "batch" \/ job'[j].i # job[j].i

\* C13: a segment that fails leaves the other segments of its job as they are
\* and its job in its batch; the gather of a batch returns only when every
\* segment of the batch has finished or failed; unless cancellation is then
\* found set, the next batch is started whether or not a segment has failed;
\* and the partial-failure error is raised only after the last batch.
C13_FailureIsolation ==
    [][\A j \in Jobs :
         /\ \A k \in 1..Len(job[j].subdirs) :
               (Running(j) /\ job[j].tasks[k].pc # "failed" /\ job'[j].tasks[k].pc = "failed")
               => /\ job'[j].pc = "batch" /\ job'[j].i = job[j].i
                  /\ \A m \in 1..Len(job[j].subdirs) :
                        m # k => job'[j].tasks[m] = job[j].tasks[m]
         /\ AfterGather(j) =>
               /\ \A k \in Batch(job[j]) : TaskOver(job[j].tasks[k])
               /\ (~stop_flag /\ job[j].i + job[j].batch_size < Len(job[j].subdirs))
                  => /\ job'[j].pc = "batch"
                     /\ job'[j].i = job[j].i + job[j].batch_size
                     /\ \A k \in Batch(job'[j]) : job'[j].tasks[k].pc = "load"
         /\ job'[j].result = "partial" => AllBatchesRan(j)']_vars

\* a job in which the first segment of a batch failed, its batch-mate was
\* rendered, and the segment of the next batch was rendered too
C13_Witness ==
    \E j \in Jobs :
        /\ Len(job[j].subdirs) = 3 /\ job[j].batch_size = 2
        /\ job[j].tasks[1].pc = "failed"
        /\ job[j].tasks[2].pc = "done"
        /\ job[j].tasks[3].pc = "done"
        /\ job[j].result = "partial"

\* C14: in every state, at most batch_size segments of a job are being rendered,
\* they all belong to the job's current batch, every segment of an earlier batch
\* has finished or failed, and no segment of a later batch has started.
C14_BoundedSequentialBatches ==
    \A j \in Jobs :
        /\ Cardinality({k \in 1..Len(job[j].subdirs) : InFlight(j, k)}) <= job[j].batch_size
        /\ \A k \in 1..Len(job[j].subdirs) :
              /\ InFlight(j, k) => (job[j].pc = "batch" /\ k > job[j].i
                                    /\ k <= job[j].i + job[j].batch_size)
              /\ k <= job[j].i => TaskOver(job[j].tasks[k])
              /\ k > job[j].i + job[j].batch_size => job[j].tasks[k].pc = "new"

\* the second batch of a three-segment job is being rendered after a first batch
\* that used the whole width batch_size = 2
C14_Witness ==
    \E j \in Jobs :
        /\ Len(job[j].subdirs) = 3 /\ job[j].batch_size = 2 /\ job[j].i = 2
        /\ InFlight(j, 3)
        /\ TaskOver(job[j].tasks[1]) /\ TaskOver(job[j].tasks[2])

\* temp_file of task k of job j: the directory and the process id are the same
\* for every job, so the subdir name is what tells two clip paths apart
TempFile(j, k) == <<"vid", job[j].subdirs[k]>>

\* temp_audio_path: the subdir name and time.time_ns() at the start of the task;
\* the clock values of two tasks are taken to differ
TempAudioPath(j, k) == <<"temp_audio", job[j].subdirs[k], j, k>>

\* the segment renders in flight
Renders == {r \in Jobs \X (1..MaxSegs) : r[2] <= Len(job[r[1]].subdirs) /\ InFlight(r[1], r[2])}

\* C15: no two segment renders in flight at the same time, of one job or of two
\* jobs, have the same temp video path or the same temp audio path.
C15_TempPathsDistinct ==
    \A r \in Renders : \A s \in Renders :
        r # s => /\ TempFile(r[1], r[2]) # TempFile(s[1], s[2])
                 /\ TempAudioPath(r[1], r[2]) # TempAudioPath(s[1], s[2])

\* C16: a step of one job (its start, a completion of one of its segments, its
\* completion) leaves the completed count, the total, the phase and the
\* cancellation flag that another running job uses and reports as they are.
C16_JobStateIsolated ==
    [][\A j \in Jobs :
         ( /\ Running(j) /\ job'[j] = job[j]
           /\ \E w \in Jobs : w # j /\ job'[w] # job[w] )
         => svc' = svc]_vars

\* what holds, in the state a step leads to, of every segment whose computed
\* frame count was zero, the job's final error being one of `outcomes`
ZeroFramesFails(outcomes) ==
    \A j \in Jobs : \A k \in 1..Len(job'[j].subdirs) :
        job'[j].tasks[k].err = "zero_frames" =>
            /\ job'[j].tasks[k].pc = "failed"
            /\ job[j].tasks[k].err # "zero_frames" => (progress' = progress /\ clip' = clip)
            /\ job'[j].subdirs[k] \notin Range(job'[j].temp_video_files)
            /\ ~MergerInvoked(j)'
            /\ Ended(j)' => job'[j].result \in outcomes

\* C17 (as amended): a segment whose frame count floor(D*fps) is zero fails: the
\* step that finds it writes no clip and leaves the completed counter alone, the
\* segment is never among the clips collected, its job never invokes the merger,
\* and the job ends with the partial-failure error or, when the flag is found
\* set at the check after a batch, with the cancellation error.
C17_ZeroFramesIsSegmentError == [][ZeroFramesFails({"partial", "cancelled"})]_vars

\* a job with a rendered segment and a zero-frame segment has ended in partial failure
C17_Witness ==
    \E j \in Jobs :
        /\ Done(j) /\ job[j].result = "partial"
        /\ job[j].temp_video_files # <<>>
        /\ \E k \in 1..Len(job[j].subdirs) : job[j].tasks[k].err = "zero_frames"

\* C17 (as stated): the same, the job always ending with the partial-failure error.
C17_ZeroFramesEndsPartial == [][ZeroFramesFails({"partial"})]_vars

\* C18: a job started on a chapter without numerically named subdirectory has
\* ended with the no-segments error as soon as it was entered: no segment task
\* exists, the merger was not invoked, no temp file exists and video.mp4 is as
\* it was; and only such a chapter gives the no-segments error.
C18_NoSegmentsError ==
    \A j \in Jobs :
        /\ (job[j].pc # "idle" /\ chapter \cap NumericNames = {}) =>
              /\ Done(j) /\ job[j].result = "no_segments"
              /\ job[j].tasks = <<>> /\ job[j].temp_video_files = <<>>
              /\ ~MergerInvoked(j)
              /\ \A d \in NumericNames : clip[d] = NoClip
              /\ audioTmp = {} /\ concat = NoFile /\ tmpOut = NoFile
              /\ video = job[j].video0
        /\ job[j].result = "no_segments" => chapter \cap NumericNames = {}

\* a job has ended with the no-segments error
C18_Witness == \E j \in Jobs : Done(j) /\ job[j].result = "no_segments"

\* the class of the exception that generate_video raises for a final result
ErrorKind(res) ==
    CASE res = "no_segments" -> "ValueError"
      [] res = "cancelled" -> "ValueError"
      [] res = "partial" -> "ValueError"
      [] res = "CalledProcessError" -> "CalledProcessError"
      [] res = "FileNotFoundError" -> "FileNotFoundError"
      [] OTHER -> "none"

\* the message the exception carries
ErrorMessage(res) ==
    CASE res = "no_segments" -> "No valid video segments"
      [] res = "cancelled" -> "Video generation cancelled by user"
      [] res = "partial" -> "Some video segments failed to generate, cannot merge. Check logs."
      [] OTHER -> "other"

\* C19: the error of a job ended by cancellation is of another kind than the
\* partial-failure error, the no-segments error and the encode error.
C19_CancellationErrorDistinct ==
    \A j \in Jobs :
        (Ended(j) /\ job[j].result = "cancelled") =>
            \A other \in {"partial", "no_segments", "CalledProcessError"} :
                ErrorKind(job[j].result) # ErrorKind(other)

\* per segment of job j: the frame count floor(D*fps) computed from its audio,
\* and the number of frames in the clip it encoded
TotalsOf(j) == {<<job[j].subdirs[k], job[j].tasks[k].total>> : k \in 1..Len(job[j].subdirs)}
FramesOf(j) == {<<job[j].subdirs[k], job[j].tasks[k].n>> : k \in 1..Len(job[j].subdirs)}

\* C20: two runs that succeeded on the same chapter with the same settings and
\* the same audio durations (hence the same floor(D*fps) per segment) handed the
\* merger the same clips in the same order, with the same number of frames in
\* the clip of each segment.
C20_Deterministic ==
    \A a \in Jobs : \A b \in Jobs :
        ( /\ job[a].result = "success" /\ job[b].result = "success"
          /\ job[a].fps = job[b].fps /\ job[a].batch_size = job[b].batch_size
          /\ TotalsOf(a) = TotalsOf(b) )
        => /\ job[a].temp_video_files = job[b].temp_video_files
           /\ FramesOf(a) = FramesOf(b)

\* C21: every segment that was rendered successfully (its task returned its clip)
\* holds exactly floor(D*fps) frames.
C21_RenderedFrameCount ==
    \A j \in Jobs : \A k \in 1..Len(job[j].subdirs) :
        job[j].tasks[k].pc = "done" => job[j].tasks[k].n = job[j].tasks[k].total

\* C22: pan_effect with pan_range = (0,0) returns an image of exactly output_size
\* pixels, cut from the middle of the source scaled by one factor on both axes
\* (to the pixel) so that it covers the output.
C22_StaticPanCoversOutput ==
    Returned("pan_effect") /\ fx.in.h_range = 0 /\ fx.in.v_range = 0 =>
        LET s == fx.out.scaled
            b == fx.out.box
        IN  /\ fx.out.size = [w |-> fx.in.ow, h |-> fx.in.oh]
            /\ s.w >= fx.in.ow /\ s.h >= fx.in.oh
            /\ \/ s.w = (s.h * fx.in.w) \div fx.in.h
               \/ s.h = (s.w * fx.in.h) \div fx.in.w
            /\ b[1] = (s.w - fx.in.ow) \div 2 /\ b[2] = (s.h - fx.in.oh) \div 2
            /\ b[1] >= 0 /\ b[2] >= 0 /\ b[3] <= s.w /\ b[4] <= s.h

\* the brightness b equals the fraction n / d
IsFraction(b, n, d) == b.num * d = n * b.den

\* C23: the brightness a frame at time t of a segment of duration D is multiplied
\* by is 1, the image untouched, when fade_duration <= 0; t/fade_duration when
\* t < fade_duration; otherwise (D-t)/fade_duration when D-t < fade_duration;
\* otherwise 1.  With a positive fade_duration it is 0 at t = 0 and 1 at t = D/2
\* when D > 2*fade_duration; it lies in [0,1] at every frame time; where the two
\* ramps overlap, the ramp in is the one applied inside the initial window.
C23_FadeBrightness ==
    Returned("fade_effect") =>
        LET t == FrameTime(fx.in.i, fx.in.fps)
            D == fx.in.duration
            fd == fx.in.fade_duration
            b == fx.out
        IN  /\ fd <= 0 => IsFraction(b, 1, 1) /\ ~b.enhanced
            /\ fd > 0 /\ t < fd => IsFraction(b, t, fd)
            /\ fd > 0 /\ t >= fd /\ D - t < fd => IsFraction(b, D - t, fd)
            /\ fd > 0 /\ t >= fd /\ D - t >= fd => IsFraction(b, 1, 1) /\ ~b.enhanced
            /\ fd > 0 /\ t = 0 => b.num = 0
            /\ fd > 0 /\ D > 2 * fd /\ 2 * t = D => IsFraction(b, 1, 1)
            /\ b.den > 0 /\ 0 <= b.num /\ b.num <= b.den
            /\ 2 * fd > D /\ t < fd /\ D - t < fd => IsFraction(b, t, fd)

\* a frame inside both ramps, where the two formulas differ
C23_Witness ==
    /\ Returned("fade_effect")
    /\ LET t == FrameTime(fx.in.i, fx.in.fps)
           D == fx.in.duration
           fd == fx.in.fade_duration
       IN  /\ 2 * fd > D /\ 0 < t /\ t < fd /\ D - t < fd /\ D - t # t
           /\ IsFraction(fx.out, t, fd) /\ fx.out.enhanced

\* _merge_videos of call j returns or raises in this step
MergeLeaves(j) == job[j].pc # "merge_ret" /\ job'[j].pc = "merge_ret"

\* C24: when _merge_videos returns or raises, neither the concat list nor the
\* temp output path is on disk.
C24_MergeLeavesNoFiles ==
    [][\A j \in Jobs : MergeLeaves(j) => concat'.st = "absent" /\ tmpOut'.st = "absent"]_vars

\* the clips call j has collected once the batch that just ended is collected
ClipsSoFar(j) ==
    Len(job[j].temp_video_files)
        + Cardinality({k \in Batch(job[j]) : job[j].tasks[k].pc = "done"})

\* C25: a segment increments the completed counter once, after its clip was
\* encoded, and a failing segment leaves it alone, so that at every batch
\* boundary (all the tasks of the batch are over) the counter equals the number
\* of clips collected so far.
C25_CounterMatchesClips ==
    \A j \in Jobs : job[j].pc = "batch" /\ GatherReturns(job[j]) => progress = ClipsSoFar(j)

\* C26: cleanup tries to delete a file at most 3 times; an attempt after the
\* first is made only when the attempt before it ended with a permission error,
\* and any other error, like a success, is the file's last attempt.
C26_BoundedRetryOnLockOnly ==
    Returned("_cleanup_temp_files") =>
        \A k \in 1..Len(fx.out.files) :
            LET r == fx.out.files[k]
                o == fx.in.files[k].out
            IN  /\ r.attempts <= 3
                /\ \A m \in 2..r.attempts : o[m - 1] = "PermissionError"
                /\ \A m \in 1..r.attempts : o[m] # "PermissionError" => r.attempts = m
                /\ r.removed <=> r.attempts >= 1 /\ o[r.attempts] = "ok"

\* a file given up after a lock error and then another error, and a file tried
\* three times
C26_Witness ==
    /\ Returned("_cleanup_temp_files")
    /\ Len(fx.out.files) = 2
    /\ fx.in.files[1].exists /\ fx.in.files[1].out[1] = "PermissionError"
    /\ fx.in.files[1].out[2] = "OSError" /\ fx.out.files[1].attempts = 2
    /\ fx.in.files[2].exists /\ fx.out.files[2].attempts = 3 /\ ~fx.out.files[2].removed

\* C27: whatever the deletions do, the cleanup ends without raising, comes to
\* every file of the list (a file that is there is tried at least once, also
\* after a file that could not be deleted), and the call ends with the value or
\* error it had before the cleanup.
C27_CleanupNeverFatal ==
    Returned("_cleanup_temp_files") =>
        /\ \A k \in 1..Len(fx.out.files) : ~fx.out.files[k].raised
        /\ Len(fx.out.files) = Len(fx.in.files)
        /\ \A k \in 1..Len(fx.out.files) : fx.in.files[k].exists => fx.out.files[k].attempts >= 1
        /\ fx.out.result = fx.in.result

\* the first file fails with an error that is not retried, the second is deleted,
\* and the call was ending with an error of its own
C27_Witness ==
    /\ Returned("_cleanup_temp_files")
    /\ Len(fx.in.files) = 2
    /\ fx.in.files[1].exists /\ fx.in.files[1].out[1] = "OSError"
    /\ ~fx.out.files[1].removed
    /\ fx.in.files[2].exists /\ fx.out.files[2].removed
    /\ fx.in.result = "partial" /\ fx.out.result = "partial"

\* C28: the batches are consecutive windows of the ordered segment list: while
\* call j works on a batch, the segments before it are exactly those of the
\* batches already over, a whole number of batches of batch_size segments each;
\* the batch is the non-empty run of the next segments, at most batch_size of
\* them and exactly batch_size unless it reaches the end of the list; and no
\* segment after it has been started.
C28_BatchesPartition ==
    \A j \in Jobs : job[j].pc = "batch" =>
        LET jr == job[j]
            B == Batch(jr)
            n == Len(jr.subdirs)
        IN  /\ jr.i % jr.batch_size = 0
            /\ B # {} /\ B \subseteq 1..n
            /\ \A k \in 1..n : k \in B <=> jr.i < k /\ k <= jr.i + Cardinality(B)
            /\ Cardinality(B) <= jr.batch_size
            /\ n \notin B => Cardinality(B) = jr.batch_size
            /\ \A k \in 1..n : k <= jr.i => TaskOver(jr.tasks[k])
            /\ \A k \in B : jr.tasks[k].pc # "new"
            /\ \A k \in 1..n : k > jr.i /\ k \notin B => jr.tasks[k].pc = "new"

\* three segments in batches of two: the last batch holds the third segment alone
C28_Witness ==
    \E j \in Jobs :
        /\ job[j].pc = "batch" /\ Len(job[j].subdirs) = 3 /\ job[j].batch_size = 2
        /\ job[j].i = 2 /\ Batch(job[j]) = {3}
        /\ Len(job[j].temp_video_files) = 2

SomeMissing(a) == a.img = Missing \/ a.aud = Missing
SomeUndersized(a) == \/ a.img # Missing /\ a.img < 1024
                     \/ a.aud # Missing /\ a.aud < 1024
ShortDuration(a) == a.dur = NoDuration \/ a.dur < 50

\* C29: loading succeeds only if image and audio both exist, both hold at least
\* 1024 bytes and the audio lasts at least 50 ms.  Otherwise it fails: with the
\* not-found error when a file is missing (and no file is undersized), with the
\* invalid-asset error when the files are there and one is undersized or the
\* duration is shorter; a not-found error always has a missing file and an
\* invalid-asset error an undersized file or a short duration behind it.
C29_LoadChecks ==
    Returned("_load_resources") =>
        LET a == fx.in
            r == fx.out
        IN  /\ r.err = "none" <=> ~SomeMissing(a) /\ ~SomeUndersized(a) /\ ~ShortDuration(a)
            /\ r.err = "none" => r.dur = a.dur
            /\ SomeMissing(a) /\ ~SomeUndersized(a) => r.err = "FileNotFoundError"
            /\ ~SomeMissing(a) /\ (SomeUndersized(a) \/ ShortDuration(a)) => r.err = "ValueError"
            /\ r.err = "FileNotFoundError" => SomeMissing(a)
            /\ r.err = "ValueError" => SomeUndersized(a) \/ ShortDuration(a)
            /\ r.err \in {"none", "FileNotFoundError", "ValueError"}

\* an audio file one byte short of the minimum next to a good image
C29_Witness ==
    /\ Returned("_load_resources")
    /\ fx.in.img = 1024 /\ fx.in.aud = 1023 /\ fx.in.dur >= 50
    /\ fx.out.err = "ValueError"

\* C30: when the concat subprocess exits with a nonzero status, the error the
\* merge raises carries the text of the subprocess's diagnostic output, decoded
\* with the preferred encoding, and the job fails with that same error.
C30_MergeErrorCarriesDiagnostics ==
    Returned("_merge_videos") =>
        /\ fx.out.raised.text = Decode(fx.in)
        /\ fx.out.job = fx.out.raised

\* C31: when the pan ranges are not both zero, the pan runs along the width for
\* an even segment index and along the height for an odd one if both ranges are
\* positive, along the height if only the vertical range is positive, and along
\* the width otherwise; every frame of the segment gets the same axis.
C31_PanAxis ==
    Returned("pan_effect") /\ ~(fx.in.h_range = 0 /\ fx.in.v_range = 0) =>
        LET c == fx.in
            both == c.h_range > 0 /\ c.v_range > 0
        IN  /\ both /\ c.segment_index % 2 = 0 => fx.out.use_horizontal
            /\ both /\ c.segment_index % 2 = 1 => ~fx.out.use_horizontal
            /\ ~both /\ c.v_range > 0 => ~fx.out.use_horizontal
            /\ ~both /\ ~(c.v_range > 0) => fx.out.use_horizontal
            /\ \A ft \in FrameTimes :
                 ft[1] = c.duration =>
                    pan_effect([c EXCEPT !.time_val = ft[2]]).use_horizontal
                        = fx.out.use_horizontal
            /\ fx.out.moving =>
                 IF fx.out.use_horizontal
                 THEN fx.out.box[2] = (fx.out.scaled.h - c.oh) \div 2
                 ELSE fx.out.box[1] = (fx.out.scaled.w - c.ow) \div 2

\* a later frame of an odd segment with both ranges positive: the crop has moved
\* down and sits in the middle of the width
C31_Witness ==
    /\ Returned("pan_effect")
    /\ fx.in.h_range > 0 /\ fx.in.v_range > 0 /\ fx.in.segment_index = 1
    /\ fx.in.time_val > 0
    /\ ~fx.out.use_horizontal /\ fx.out.box[2] > 0

\* C32: for every frame of a panned segment the crop window lies inside the
\* scaled image: the scaled image is at least as wide and as high as the output,
\* the offset along the pan axis is between 0 and scaled - output, and the offset
\* across it is the centred value (scaled - output) div 2.
C32_CropInsideScaledImage ==
    Returned("pan_effect") /\ fx.out.moving =>
        LET c == fx.in
            s == fx.out.scaled
            b == fx.out.box
            x_room == s.w - c.ow
            y_room == s.h - c.oh
        IN  /\ x_room >= 0 /\ y_room >= 0
            /\ b[1] >= 0 /\ b[2] >= 0 /\ b[3] <= s.w /\ b[4] <= s.h
            /\ IF fx.out.use_horizontal
               THEN 0 <= b[1] /\ b[1] <= x_room /\ b[2] = y_room \div 2
               ELSE 0 <= b[2] /\ b[2] <= y_room /\ b[1] = x_room \div 2

\* C36: for every combination of settings, use_pan = false included, every frame
\* apply_effects returns has exactly the configured output resolution.
C36_FramesHaveOutputResolution ==
    Returned("apply_effects") =>
        fx.out.size = [w |-> fx.in.ow, h |-> fx.in.oh]

Requested(args, name) ==
    \/ args.codec = name
    \/ \E i \in 1..Len(args.ffmpeg_params) : args.ffmpeg_params[i] = name

\* C33: the hardware codec is requested from the encoder only when hardware
\* acceleration is enabled in the settings and was detected as available; in
\* every other case only the software codec, with the fixed quality 23, is
\* requested.
C33_HardwareCodecOnlyWhenEnabledAndAvailable ==
    Returned("_write_temp_video") =>
        IF fx.in.use_cuda /\ ~fx.in.encoders.raises /\ "h264_nvenc" \in fx.in.encoders.stdout
        THEN Requested(fx.out, "h264_nvenc")
        ELSE /\ ~Requested(fx.out, "h264_nvenc")
             /\ Requested(fx.out, "libx264")
             /\ \E i \in 1..(Len(fx.out.ffmpeg_params) - 1) :
                    fx.out.ffmpeg_params[i] = "-crf" /\ fx.out.ffmpeg_params[i + 1] = "23"

\* C34: the segments discovered at job start are exactly the subdirectories with
\* a numeric name, and no two discovered segments have the same numeric id, so
\* the ascending order of the ids is total.
C34_DiscoveredIdsUnique ==
    \A j \in Jobs : job[j].pc # "idle" =>
        LET subdirs == job[j].subdirs IN
        /\ {subdirs[p] : p \in 1..Len(subdirs)} = chapter \cap NumericNames
        /\ \A p, q \in 1..Len(subdirs) :
               p # q => IntOf(subdirs[p]) # IntOf(subdirs[q])

\* no other call of generate_video has been made
Alone(j) == \A w \in Jobs \ {j} : job[w].pc = "idle"

\* C35: a cancellation requested while the merge is running does not interrupt
\* it: a job in its merge never leaves it with the cancellation error, and when
\* the concat has run to completion the job ends in success whatever the flag
\* says, with the merge result at the output path (and, when no other call
\* shares the chapter, that result is the complete concatenation of the job's
\* clips).
C35_CancelDuringMergeIgnored ==
    [][\A j \in Jobs :
         /\ (job[j].pc \in MergePcs /\ stop_flag') =>
               /\ job'[j].result # "cancelled"
               /\ job'[j].pc \in MergePcs \cup {"cleanup", "done"}
         /\ (job[j].pc = "merge_ret" /\ job[j].err = "none" /\ job'[j] # job[j]) =>
               /\ job'[j].result = "success"
               /\ video'.st \notin {"absent", "pre"}
               /\ Alone(j) =>
                     /\ video'.st = "whole"
                     /\ [p \in 1..Len(video'.data) |-> video'.data[p].seg]
                            = job[j].temp_video_files]_vars

\* the flag was set while the only job was merging; its concat has run to
\* completion and the result is at the output path
C35_Witness ==
    \E j \in Jobs :
        /\ job[j].pc = "merge_ret" /\ job[j].err = "none"
        /\ stop_flag /\ cancelAt[j] = "other" /\ Alone(j)
        /\ video.st = "whole"

\* the order of the phases current_task goes through
PhaseRank(task) ==
    CASE task = "None" -> 0
      [] task = "chapter" -> 1
      [] task = "Merging videos" -> 2
      [] task = "Completed" -> 3

\* what a step leaves true of the phase that job j shows while it runs
PhaseForward(j) ==
    /\ (Running(j) /\ Running(j)') =>
          PhaseRank(current_task') >= PhaseRank(current_task)
    /\ (Running(j)' /\ current_task' = "Merging videos") =>
          /\ AllBatchesRan(j)' /\ ~SomeFailed(j)'
          /\ MergerInvoked(j)'
    /\ (Running(j) /\ current_task' = "Completed") =>
          /\ job'[j].result = "success"
          /\ progress' = total_segments'

\* C37: the phase of a job only moves forward: rendering, merging, completed;
\* merging is shown only after every batch has finished with every segment
\* successful, completed only after the merge succeeded and with the completed
\* count equal to the total; a failed or cancelled job never shows completed.
C37_PhaseOnlyMovesForward == [][\A j \in Jobs : PhaseForward(j)]_vars

\* a segment of the batch the job is awaiting, or awaited last, has failed
FailedInBatch(j) == \E k \in Batch(job[j]) : job[j].tasks[k].pc = "failed"

\* C38: when a batch ends with both a failed segment and the cancellation flag
\* set, the job reports the cancellation error, not the partial-failure error.
C38_CancellationBeforeCountCheck ==
    [][\A j \in Jobs :
         ( /\ job[j].pc = "batch" /\ GatherReturns(job[j])
           /\ FailedInBatch(j) /\ stop_flag
           /\ job'[j] # job[j] )
         => /\ Ended(j)'
            /\ job'[j].result = "cancelled"]_vars

\* a job whose last batch held a failed segment has ended with the cancellation
\* error
C38_Witness ==
    \E j \in Jobs :
        /\ Ended(j) /\ job[j].result = "cancelled"
        /\ AllBatchesRan(j) /\ FailedInBatch(j)

\* the outcome of generate_video for a final result: an error that
\* _merge_videos raised is a merge error
Outcome(res) ==
    CASE res = "success" -> "success"
      [] res = "no_segments" -> "no-segments error"
      [] res = "partial" -> "partial-failure error"
      [] res = "cancelled" -> "cancellation error"
      [] res \in {"CalledProcessError", "FileNotFoundError"} -> "merge error"
      [] OTHER -> "none"

\* C39: provided every asset load, frame render and external process returns,
\* every job terminates; it has then exactly one outcome among success,
\* no-segments error, partial-failure error, cancellation error and merge error,
\* which does not change once it is determined; and generate_video returns only
\* from its finished cleanup step, or without temp files to clean up.
C39_TerminatesInOneOutcome ==
    /\ [](\A j \in Jobs : Done(j) => Outcome(job[j].result) # "none")
    /\ [][\A j \in Jobs :
            /\ job[j].result # "none" => job'[j].result = job[j].result
            /\ (~Done(j) /\ Done(j)') =>
                  \/ job[j].pc = "cleanup"
                  \/ job'[j].temp_video_files = <<>>]_vars
    /\ \A j \in Jobs : (job[j].pc # "idle") ~> Done(j)

\* the call has returned a merge error after its cleanup, which removed the
\* clips of its two segments
C39_Witness ==
    \E j \in Jobs :
        /\ Done(j) /\ Outcome(job[j].result) = "merge error"
        /\ Len(job[j].temp_video_files) = 2
        /\ \A d \in Range(job[j].temp_video_files) : clip[d] = NoClip

====
